---- MODULE Spec2Model ----
(***************************************************************************)
(* A model of brocode.py, the BROS command line tool: workspace, project   *)
(* and node scaffolding, the simulated build and the simulated launch.     *)
(*                                                                         *)
(* The file system is a set of directory paths, a set of file paths and    *)
(* the list held by each YAML manifest.  A path is a sequence of names;    *)
(* the empty sequence is the file-system root.  Each command of the tool   *)
(* is one action that computes everything the command does to the file     *)
(* system and to the working directory, and records in `last` what it      *)
(* printed (its outcome and its itemised report).  `calls` is used by the  *)
(* specification of overlapping invocations only: the position and the     *)
(* local variables of each call in flight.                                 *)
(***************************************************************************)
EXTENDS Naturals, Sequences, FiniteSets, TLC

VARIABLES dirs, files, xbits, content, cwd, last, calls

vars == <<dirs, files, xbits, content, cwd, last, calls>>

(***************************************************************************)
(* Names and bounds                                                        *)
(***************************************************************************)
BROS_WORKSPACE_CONFIG_FILE == ".bros_workspace.yaml"
BROS_PROJECT_MANIFEST_FILE == "package.yaml"

\* Python's None where a string is expected: dict.get(key) of an absent key,
\* the --project option not given.
None == "<None>"
\* Python's None where a path is expected: no workspace, no project found.
NoPath == <<"<None>">>

WorkspaceNames == {"ws"}
ProjectNames == {"p", "q"}
NodeNames == {"a", "b"}
NodeTypes == {"pub", "sub", "service"}
\* node_type as the model passes it: one of the three kinds and another word.
NodeTypeArgs == {"pub", "bogus"}

\* Longest launch specification tried by the launch specification.
MaxEntries == 2
\* Deepest start directory of the resolver specification.
MaxDepth == 4

(***************************************************************************)
(* Paths: os.path.join, os.path.dirname, os.path.basename, os.path.exists  *)
(***************************************************************************)
Root == <<>>

Join(path, name) == Append(path, name)

Dirname(path) == IF path = <<>> THEN path ELSE SubSeq(path, 1, Len(path) - 1)

Basename(path) == IF path = <<>> THEN "" ELSE path[Len(path)]

ExistsIn(ds, fs, path) == path \in ds \cup fs

Exists(path) == ExistsIn(dirs, files, path)

IsPrefix(s, t) == Len(s) <= Len(t) /\ SubSeq(t, 1, Len(s)) = s

\* Every ancestor of path, path included, down to the root: what
\* os.makedirs creates.
Ancestors(path) == {SubSeq(path, 1, n) : n \in 0..Len(path)}

InSeq(x, s) == \E i \in 1..Len(s) : s[i] = x

Count(x, s) == Cardinality({i \in 1..Len(s) : s[i] = x})

(***************************************************************************)
(* Workspace and project resolution                                        *)
(***************************************************************************)
RECURSIVE WorkspaceAbove(_, _, _)
\* The upward walk for the workspace marker: the nearest ancestor of path
\* (path included) that holds .bros_workspace.yaml, or NoPath at the root.
WorkspaceAbove(ds, fs, path) ==
    IF ExistsIn(ds, fs, Join(path, BROS_WORKSPACE_CONFIG_FILE)) THEN path
    ELSE IF Dirname(path) = path THEN NoPath
    ELSE WorkspaceAbove(ds, fs, Dirname(path))

_get_workspace_path == WorkspaceAbove(dirs, files, cwd)

RECURSIVE FindProjectRoot_NoWorkspaceCheck(_, _, _)
\* The project walk without the inner walk of lines 26-34.
FindProjectRoot_NoWorkspaceCheck(ds, fs, current_path) ==
    LET project_manifest_path == Join(current_path, BROS_PROJECT_MANIFEST_FILE)
    IN  IF ExistsIn(ds, fs, project_manifest_path)
        THEN <<current_path, project_manifest_path>>
        ELSE IF Dirname(current_path) = current_path THEN <<NoPath, NoPath>>
        ELSE FindProjectRoot_NoWorkspaceCheck(ds, fs, Dirname(current_path))

RECURSIVE FindProjectRootIn(_, _, _)
\* <<project root, manifest path>>, or <<NoPath, NoPath>> for (None, None).
FindProjectRootIn(ds, fs, current_path) ==
    LET project_manifest_path == Join(current_path, BROS_PROJECT_MANIFEST_FILE)
    IN  IF ExistsIn(ds, fs, project_manifest_path)
        THEN IF WorkspaceAbove(ds, fs, current_path) # NoPath
             THEN <<current_path, project_manifest_path>>
             ELSE <<NoPath, NoPath>>
        ELSE IF Dirname(current_path) = current_path THEN <<NoPath, NoPath>>
        ELSE FindProjectRootIn(ds, fs, Dirname(current_path))

_find_project_root(start_path) == FindProjectRootIn(dirs, files, start_path)

(***************************************************************************)
(* Layout of a workspace                                                   *)
(***************************************************************************)
WorkspaceDirs == {"src", "build", "install", "log"}
ProjectSubdirs == {"nodes", "msg", "srv", "action", "launch", "config"}

ProjectPath(ws, project_name) == Join(Join(ws, "src"), project_name)

ManifestPath(ws, project_name) ==
    Join(ProjectPath(ws, project_name), BROS_PROJECT_MANIFEST_FILE)

ExecutableName(node_name) == node_name \o "_node"

ExecutableNames == {ExecutableName(n) : n \in NodeNames}

\* The source file of an executable, as create_node writes it and as
\* build_projects looks it up.
BendFile(project_root, executable_name) ==
    Join(Join(project_root, "nodes"), executable_name \o ".bend")

BuildArtifact(ws, executable_name) == Join(Join(ws, "build"), executable_name)

\* The artifact installed into a bin/ subdirectory of install/.
InstallArtifact_Bin(ws, executable_name) ==
    Join(Join(Join(ws, "install"), "bin"), executable_name)

InstallArtifact(ws, executable_name) == Join(Join(ws, "install"), executable_name)

\* yaml.dump of a document over the old one: the manifest now holds list.
WriteYaml(c, path, list) ==
    [f \in DOMAIN c \cup {path} |-> IF f = path THEN list ELSE c[f]]

\* The registration without the membership test of line 153.
RegisterProject_NoCheck(projects, project_name) == Append(projects, project_name)

\* Lines 153-157: the projects list the workspace config holds after the
\* registration; the document is rewritten only when the name is new.
RegisterProject(projects, project_name) ==
    IF ~InSeq(project_name, projects) THEN Append(projects, project_name)
    ELSE projects

\* The registration without the membership test of line 396.
RegisterExecutable_NoCheck(executables, node_executable_name) ==
    Append(executables, node_executable_name)

\* Lines 396-400: the executables list the project manifest holds after the
\* registration; the document is rewritten only when the name is new.
RegisterExecutable(executables, node_executable_name) ==
    IF ~InSeq(node_executable_name, executables)
    THEN Append(executables, node_executable_name)
    ELSE executables

(***************************************************************************)
(* Initial state: an empty file system, the tool started at the root.      *)
(***************************************************************************)
Init ==
    /\ dirs = {Root}
    /\ files = {}
    /\ xbits = {}
    /\ content = <<>>
    /\ cwd = Root
    /\ last = [op |-> "start"]
    /\ calls = <<>>

(***************************************************************************)
(* create workspace <name>                                                 *)
(***************************************************************************)
\* The directories from which the model runs `create workspace`.
WorkspaceParents == {Root}

\* create workspace going on over a directory that exists: it writes the
\* initial config again.
create_workspace_Overwrite(name) ==
    LET ws == Join(cwd, name)
        config == Join(ws, BROS_WORKSPACE_CONFIG_FILE)
    IN  /\ cwd \in WorkspaceParents
        /\ UNCHANGED calls
        /\ dirs' = dirs \cup Ancestors(ws)
                      \cup {Join(ws, d) : d \in WorkspaceDirs}
        /\ files' = files \cup {config}
        /\ content' = WriteYaml(content, config, <<>>)
        /\ cwd' = ws
        /\ last' = [op |-> "create_workspace", outcome |-> "created",
                    cwd0 |-> cwd]
        /\ UNCHANGED xbits

create_workspace(name) ==
    LET ws == Join(cwd, name)
        config == Join(ws, BROS_WORKSPACE_CONFIG_FILE)
    IN  /\ cwd \in WorkspaceParents
        /\ UNCHANGED calls
        /\ IF Exists(ws)
           THEN /\ last' = [op |-> "create_workspace", outcome |-> "exists",
                            cwd0 |-> cwd]
                /\ UNCHANGED <<dirs, files, xbits, content, cwd>>
           ELSE /\ dirs' = dirs \cup Ancestors(ws)
                              \cup {Join(ws, d) : d \in WorkspaceDirs}
                /\ files' = files \cup {config}
                /\ content' = WriteYaml(content, config, <<>>)
                \* os.chdir(name) at line 69 is never undone.
                /\ cwd' = ws
                /\ last' = [op |-> "create_workspace", outcome |-> "created",
                            cwd0 |-> cwd]
                /\ UNCHANGED xbits

(***************************************************************************)
(* create project <project_name>                                           *)
(***************************************************************************)
create_project(project_name) ==
    LET workspace_path == _get_workspace_path
        original_cwd == cwd
        project_path == ProjectPath(workspace_path, project_name)
        manifest_path == Join(project_path, BROS_PROJECT_MANIFEST_FILE)
        workspace_config_path == Join(workspace_path, BROS_WORKSPACE_CONFIG_FILE)
        projects == content[workspace_config_path]
    IN  /\ UNCHANGED calls
        /\ IF workspace_path = NoPath
           THEN /\ last' = [op |-> "create_project", outcome |-> "no_workspace",
                            name |-> project_name, cwd0 |-> cwd]
                /\ UNCHANGED <<dirs, files, xbits, content, cwd>>
           ELSE IF Exists(project_path)
           THEN /\ last' = [op |-> "create_project", outcome |-> "exists",
                            name |-> project_name, cwd0 |-> original_cwd]
                /\ cwd' = original_cwd
                /\ UNCHANGED <<dirs, files, xbits, content>>
           ELSE /\ dirs' = dirs \cup Ancestors(project_path)
                              \cup {Join(project_path, d) : d \in ProjectSubdirs}
                /\ files' = files \cup {manifest_path}
                /\ content' =
                     LET c1 == WriteYaml(content, manifest_path, <<>>)
                     IN  WriteYaml(c1, workspace_config_path,
                                   RegisterProject(projects, project_name))
                /\ last' = [op |-> "create_project",
                            outcome |-> IF ~InSeq(project_name, projects)
                                        THEN "added" ELSE "already_listed",
                            name |-> project_name, cwd0 |-> original_cwd]
                /\ cwd' = original_cwd
                /\ UNCHANGED xbits

(***************************************************************************)
(* create node <node_name> --type <node_type> [--project <project_name>]   *)
(***************************************************************************)
\* What the manifest update of lines 389-403 does in a call of create_node:
\* "ok", or "raises" (open(..., 'r+') or yaml.safe_load raises: the file is
\* not writable or not a YAML document).
ManifestUpdates == {"ok", "raises"}

create_node(node_name, node_type, project_name, update) ==
    LET found == _find_project_root(cwd)
        workspace_path == _get_workspace_path
        detected == found[1] # NoPath
        project_root == IF detected THEN found[1]
                        ELSE ProjectPath(workspace_path, project_name)
        project_manifest_path ==
            IF detected THEN found[2]
            ELSE Join(project_root, BROS_PROJECT_MANIFEST_FILE)
        nodes_dir == Join(project_root, "nodes")
        node_executable_name == ExecutableName(node_name)
        node_file_path == BendFile(project_root, node_executable_name)
        executables == content[project_manifest_path]
        Fail(outcome) ==
            /\ last' = [op |-> "create_node", outcome |-> outcome, cwd0 |-> cwd]
            /\ UNCHANGED <<dirs, files, xbits, content, cwd>>
    IN  /\ UNCHANGED calls
        /\ IF ~detected /\ project_name = None THEN Fail("no_project")
           ELSE IF ~detected /\ workspace_path = NoPath THEN Fail("no_workspace")
           ELSE IF ~detected /\ ~Exists(project_manifest_path)
           THEN Fail("project_not_found")
           ELSE IF Exists(node_file_path) THEN Fail("exists")
           ELSE IF node_type \notin NodeTypes THEN Fail("invalid_type")
           ELSE IF update = "raises"
           THEN \* The stub of lines 383-385 is on disk when the update raises; the
                \* except clauses of lines 407-412 print the error and return.
                /\ dirs' = dirs \cup Ancestors(nodes_dir)
                /\ files' = files \cup {node_file_path}
                /\ last' = [op |-> "create_node", outcome |-> "error", cwd0 |-> cwd]
                /\ UNCHANGED <<xbits, content, cwd>>
           ELSE /\ dirs' = dirs \cup Ancestors(nodes_dir)
                /\ files' = files \cup {node_file_path}
                /\ content' =
                     WriteYaml(content, project_manifest_path,
                               RegisterExecutable(executables, node_executable_name))
                /\ last' = [op |-> "create_node",
                            outcome |-> IF ~InSeq(node_executable_name, executables)
                                        THEN "added" ELSE "already_listed",
                            node |-> node_name, manifest |-> project_manifest_path,
                            cwd0 |-> cwd]
                /\ UNCHANGED <<xbits, cwd>>

(***************************************************************************)
(* build                                                                   *)
(***************************************************************************)
\* What the compile and install steps of one executable do in a run of the
\* build: "ok", "compile" (writing build/<executable> raises) or "install"
\* (copying it to install/<executable> raises).
\* At most one executable's step raises in one run.
StepFaults ==
    {f \in [ExecutableNames -> {"ok", "compile", "install"}] :
       Cardinality({e \in ExecutableNames : f[e] # "ok"}) <= 1}

\* The same with the steps that raise part-way.
PartialStepFaults ==
    {f \in [ExecutableNames ->
              {"ok", "compile", "compile_partial", "install", "install_partial"}] :
       Cardinality({e \in ExecutableNames : f[e] # "ok"}) <= 1}

RECURSIVE BuildExecutables_StopAtMissing(_, _, _, _, _, _)
\* The executables loop with a missing source ending it (a break in the
\* else branch of line 494).
BuildExecutables_StopAtMissing(acc, ws, project_name, executables, i, fault) ==
    IF i > Len(executables) THEN acc
    ELSE
      LET executable_name == executables[i]
          bend_node_file == BendFile(ProjectPath(ws, project_name), executable_name)
          build_artifact_path == BuildArtifact(ws, executable_name)
          install_artifact_path == InstallArtifact(ws, executable_name)
          item == <<project_name, executable_name>>
          seen == [acc EXCEPT !.attempted = Append(@, item)]
      IN  IF Exists(bend_node_file)
          THEN IF fault[executable_name] = "compile"
               THEN [seen EXCEPT !.raised = @ \cup {project_name},
                                 !.overall_success = FALSE]
               ELSE IF fault[executable_name] = "install"
               THEN [seen EXCEPT !.fs = @ \cup {build_artifact_path},
                                 !.xb = @ \cup {build_artifact_path},
                                 !.raised = @ \cup {project_name},
                                 !.overall_success = FALSE]
               ELSE BuildExecutables_StopAtMissing(
                      [seen EXCEPT
                         !.fs = @ \cup {build_artifact_path, install_artifact_path},
                         !.xb = @ \cup {build_artifact_path, install_artifact_path},
                         !.built = @ \cup {item}],
                      ws, project_name, executables, i + 1, fault)
          ELSE [seen EXCEPT !.missing = @ \cup {item}, !.overall_success = FALSE]

RECURSIVE BuildExecutables_SkipUpToDate(_, _, _, _, _, _)
\* The executables loop leaving out a node whose build artifact exists
\* already (an incremental build).
BuildExecutables_SkipUpToDate(acc, ws, project_name, executables, i, fault) ==
    IF i > Len(executables) THEN acc
    ELSE
      LET executable_name == executables[i]
          bend_node_file == BendFile(ProjectPath(ws, project_name), executable_name)
          build_artifact_path == BuildArtifact(ws, executable_name)
          install_artifact_path == InstallArtifact(ws, executable_name)
          item == <<project_name, executable_name>>
          seen == [acc EXCEPT !.attempted = Append(@, item)]
      IN  IF Exists(bend_node_file)
          THEN IF Exists(build_artifact_path)
               THEN BuildExecutables_SkipUpToDate(seen, ws, project_name,
                                                  executables, i + 1, fault)
               ELSE IF fault[executable_name] \in {"compile", "install"}
               THEN [seen EXCEPT !.raised = @ \cup {project_name},
                                 !.overall_success = FALSE]
               ELSE BuildExecutables_SkipUpToDate(
                      [seen EXCEPT
                         !.fs = @ \cup {build_artifact_path, install_artifact_path},
                         !.xb = @ \cup {build_artifact_path, install_artifact_path},
                         !.built = @ \cup {item}],
                      ws, project_name, executables, i + 1, fault)
          ELSE BuildExecutables_SkipUpToDate(
                 [seen EXCEPT !.missing = @ \cup {item},
                              !.overall_success = FALSE],
                 ws, project_name, executables, i + 1, fault)

RECURSIVE BuildExecutables(_, _, _, _, _, _)
\* The loop of lines 468-496 over the executables of one project, from
\* index i on.  acc carries the files written so far and the report.  An
\* exception leaves the loop: it is caught at line 498, outside it.  A step
\* that raises part-way ("compile_partial": a write of lines 481-483,
\* "install_partial": shutil.copy after it created its destination) leaves
\* the file it had opened, with the mode it had: not executable when new.
BuildExecutables(acc, ws, project_name, executables, i, fault) ==
    IF i > Len(executables) THEN acc
    ELSE
      LET executable_name == executables[i]
          project_path == ProjectPath(ws, project_name)
          bend_node_file == BendFile(project_path, executable_name)
          build_artifact_path == BuildArtifact(ws, executable_name)
          install_artifact_path == InstallArtifact(ws, executable_name)
          item == <<project_name, executable_name>>
          seen == [acc EXCEPT !.attempted = Append(@, item)]
      IN  IF Exists(bend_node_file)
          THEN IF fault[executable_name] = "compile"
               THEN [seen EXCEPT !.raised = @ \cup {project_name},
                                 !.overall_success = FALSE]
               ELSE IF fault[executable_name] = "compile_partial"
               THEN [seen EXCEPT !.fs = @ \cup {build_artifact_path},
                                 !.raised = @ \cup {project_name},
                                 !.overall_success = FALSE]
               ELSE IF fault[executable_name] = "install"
               THEN [seen EXCEPT !.fs = @ \cup {build_artifact_path},
                                 !.xb = @ \cup {build_artifact_path},
                                 !.raised = @ \cup {project_name},
                                 !.overall_success = FALSE]
               ELSE IF fault[executable_name] = "install_partial"
               THEN [seen EXCEPT !.fs = @ \cup {build_artifact_path,
                                                install_artifact_path},
                                 !.xb = @ \cup {build_artifact_path},
                                 !.raised = @ \cup {project_name},
                                 !.overall_success = FALSE]
               ELSE BuildExecutables(
                      [seen EXCEPT
                         !.fs = @ \cup {build_artifact_path, install_artifact_path},
                         !.xb = @ \cup {build_artifact_path, install_artifact_path},
                         !.built = @ \cup {item}],
                      ws, project_name, executables, i + 1, fault)
          ELSE BuildExecutables(
                 [seen EXCEPT !.missing = @ \cup {item},
                              !.overall_success = FALSE],
                 ws, project_name, executables, i + 1, fault)

RECURSIVE BuildProjectsFrom_IgnoreDangling(_, _, _, _, _)
\* The projects loop without line 456: a project without manifest is skipped
\* and the build still counts as a success.
BuildProjectsFrom_IgnoreDangling(acc, ws, projects, k, fault) ==
    IF k > Len(projects) THEN acc
    ELSE
      LET project_name == projects[k]
          project_manifest_path == ManifestPath(ws, project_name)
      IN  IF ~Exists(project_manifest_path)
          THEN BuildProjectsFrom_IgnoreDangling(
                 [acc EXCEPT !.dangling = @ \cup {project_name}],
                 ws, projects, k + 1, fault)
          ELSE BuildProjectsFrom_IgnoreDangling(
                 BuildExecutables(acc, ws, project_name,
                                  content[project_manifest_path], 1, fault),
                 ws, projects, k + 1, fault)

RECURSIVE BuildProjectsFrom(_, _, _, _, _)
\* The loop of lines 449-500 over the workspace's projects, from index k on.
BuildProjectsFrom(acc, ws, projects, k, fault) ==
    IF k > Len(projects) THEN acc
    ELSE
      LET project_name == projects[k]
          project_manifest_path == ManifestPath(ws, project_name)
      IN  IF ~Exists(project_manifest_path)
          THEN BuildProjectsFrom(
                 [acc EXCEPT !.dangling = @ \cup {project_name},
                             !.overall_success = FALSE],
                 ws, projects, k + 1, fault)
          ELSE BuildProjectsFrom(
                 BuildExecutables(acc, ws, project_name,
                                  content[project_manifest_path], 1, fault),
                 ws, projects, k + 1, fault)

build_projects(fault) ==
    LET workspace_path == _get_workspace_path
        original_cwd == cwd
        projects == content[Join(workspace_path, BROS_WORKSPACE_CONFIG_FILE)]
        build_dir == Join(workspace_path, "build")
        install_dir == Join(workspace_path, "install")
        start == [fs |-> files, xb |-> xbits, attempted |-> <<>>, built |-> {},
                  missing |-> {}, dangling |-> {}, raised |-> {},
                  overall_success |-> TRUE]
        done == BuildProjectsFrom(start, workspace_path, projects, 1, fault)
    IN  /\ UNCHANGED calls
        /\ IF workspace_path = NoPath
           THEN /\ last' = [op |-> "build", outcome |-> "no_workspace", cwd0 |-> cwd]
                /\ UNCHANGED <<dirs, files, xbits, content, cwd>>
           ELSE IF projects = <<>>
           THEN /\ last' = [op |-> "build", outcome |-> "no_projects",
                            cwd0 |-> original_cwd]
                /\ cwd' = original_cwd
                /\ UNCHANGED <<dirs, files, xbits, content>>
           ELSE /\ dirs' = dirs \cup Ancestors(build_dir) \cup Ancestors(install_dir)
                /\ files' = done.fs
                /\ xbits' = done.xb
                /\ last' = [op |-> "build", outcome |-> "summary",
                            cwd0 |-> original_cwd,
                            attempted |-> done.attempted,
                            built |-> done.built,
                            missing |-> done.missing,
                            dangling |-> done.dangling,
                            raised |-> done.raised,
                            fault |-> fault,
                            pass |-> IF last.op = "build" /\ last.outcome = "summary"
                                     THEN 2 ELSE 1,
                            overall_success |-> done.overall_success]
                /\ cwd' = original_cwd
                /\ UNCHANGED content

(***************************************************************************)
(* launch <launch_file>                                                    *)
(***************************************************************************)
\* A launch entry is the three fields launch_nodes decides on; a field the
\* entry does not have reads as None (dict.get).  args, remap and params are
\* only printed.
NodeConfig(alias, project_name, executable_name) ==
    [node |-> alias, from |-> project_name, executable |-> executable_name]

\* The entries the model writes into launch files: well-formed ones for the
\* two executables and for either project, and one entry without each of
\* the three mandatory fields.
LaunchEntries ==
    {NodeConfig("n1", "p", ExecutableName("a")),
     NodeConfig("n1", "q", ExecutableName("a")),
     NodeConfig("n2", "p", ExecutableName("b")),
     NodeConfig(None, "p", ExecutableName("a")),
     NodeConfig("n1", None, ExecutableName("a")),
     NodeConfig("n1", "p", None),
     NodeConfig("n2", None, ExecutableName("b"))}

\* What opening and parsing the launch file gives: no such file, a document
\* without the `launch` key, or the entries of its system.
NoFile == [kind |-> "no file"]
NoLaunchKey == [kind |-> "no launch key"]
LaunchFile(nodes_to_launch) == [kind |-> "launch", nodes |-> nodes_to_launch]

RECURSIVE SeqsUpTo(_, _)
SeqsUpTo(S, n) ==
    IF n = 0 THEN {<<>>}
    ELSE LET shorter == SeqsUpTo(S, n - 1)
         IN  shorter \cup {Append(s, x) : s \in {t \in shorter : Len(t) = n - 1},
                                          x \in S}

LaunchDocs ==
    {NoFile, NoLaunchKey}
    \cup {LaunchFile(s) : s \in SeqsUpTo(LaunchEntries, MaxEntries)}

\* Python truth of a field value: None and the empty string are false.
Truthy(v) == v # None /\ v # ""

\* The test of line 577 without the `from` field, which the launch never uses.
WellFormed_NoFrom(node_config) ==
    /\ Truthy(node_config.node)
    /\ Truthy(node_config.executable)

\* all([node_name_in_launch, project_name, executable_name]) at line 577.
WellFormed(node_config) ==
    /\ Truthy(node_config.node)
    /\ Truthy(node_config.from)
    /\ Truthy(node_config.executable)

\* The summary reporting success whatever was launched.
LaunchSucceeded_Always(launched_nodes) == TRUE

\* Line 601: the launch reports success when launched_nodes is not empty.
LaunchSucceeded(launched_nodes) == launched_nodes # <<>>

RECURSIVE LaunchFrom_StopAtNotFound(_, _, _, _)
\* The entries loop with a missing artifact ending it (a break at line 586).
LaunchFrom_StopAtNotFound(acc, install_dir, nodes_to_launch, i) ==
    IF i > Len(nodes_to_launch) THEN acc
    ELSE
      LET node_config == nodes_to_launch[i]
          executable_path == Join(install_dir, node_config.executable)
      IN  IF ~WellFormed(node_config)
          THEN LaunchFrom_StopAtNotFound([acc EXCEPT !.malformed = @ \cup {i}],
                                         install_dir, nodes_to_launch, i + 1)
          ELSE IF ~Exists(executable_path)
          THEN [acc EXCEPT !.not_found = @ \cup {i}]
          ELSE LaunchFrom_StopAtNotFound(
                 [acc EXCEPT !.launched_nodes = Append(@, node_config.node),
                             !.launched_at = @ \cup {i}],
                 install_dir, nodes_to_launch, i + 1)

RECURSIVE LaunchFrom_CheckProject(_, _, _, _)
\* The loop launching an entry only when the project it names has a manifest
\* in the workspace.
LaunchFrom_CheckProject(acc, install_dir, nodes_to_launch, i) ==
    IF i > Len(nodes_to_launch) THEN acc
    ELSE
      LET node_config == nodes_to_launch[i]
          executable_path == Join(install_dir, node_config.executable)
          manifest_path == ManifestPath(Dirname(install_dir), node_config.from)
      IN  IF ~WellFormed(node_config)
          THEN LaunchFrom_CheckProject([acc EXCEPT !.malformed = @ \cup {i}],
                                       install_dir, nodes_to_launch, i + 1)
          ELSE IF ~Exists(executable_path) \/ ~Exists(manifest_path)
          THEN LaunchFrom_CheckProject([acc EXCEPT !.not_found = @ \cup {i}],
                                       install_dir, nodes_to_launch, i + 1)
          ELSE LaunchFrom_CheckProject(
                 [acc EXCEPT !.launched_nodes = Append(@, node_config.node),
                             !.launched_at = @ \cup {i}],
                 install_dir, nodes_to_launch, i + 1)

RECURSIVE LaunchFrom(_, _, _, _)
\* The loop of lines 561-599 over the entries, from index i on.
LaunchFrom(acc, install_dir, nodes_to_launch, i) ==
    IF i > Len(nodes_to_launch) THEN acc
    ELSE
      LET node_config == nodes_to_launch[i]
          executable_path == Join(install_dir, node_config.executable)
      IN  IF ~WellFormed(node_config)
          THEN LaunchFrom([acc EXCEPT !.malformed = @ \cup {i}],
                          install_dir, nodes_to_launch, i + 1)
          ELSE IF ~Exists(executable_path)
          THEN LaunchFrom([acc EXCEPT !.not_found = @ \cup {i}],
                          install_dir, nodes_to_launch, i + 1)
          ELSE LaunchFrom([acc EXCEPT !.launched_nodes = Append(@, node_config.node),
                                      !.launched_at = @ \cup {i}],
                          install_dir, nodes_to_launch, i + 1)

launch_nodes(doc) ==
    LET workspace_path == _get_workspace_path
        original_cwd == cwd
        install_dir == Join(workspace_path, "install")
        start == [launched_nodes |-> <<>>, launched_at |-> {},
                  malformed |-> {}, not_found |-> {}]
        nodes_to_launch == doc.nodes
        done == LaunchFrom(start, install_dir, nodes_to_launch, 1)
        Return(outcome) ==
            /\ last' = [op |-> "launch", outcome |-> outcome, cwd0 |-> original_cwd]
            /\ cwd' = original_cwd
    IN  /\ UNCHANGED <<dirs, files, xbits, content, calls>>
        /\ IF workspace_path = NoPath
           THEN /\ last' = [op |-> "launch", outcome |-> "no_workspace",
                            cwd0 |-> cwd]
                /\ UNCHANGED cwd
           ELSE IF doc = NoFile THEN Return("file_not_found")
           ELSE IF doc = NoLaunchKey THEN Return("invalid_format")
           ELSE IF nodes_to_launch = <<>> THEN Return("no_nodes")
           ELSE /\ last' = [op |-> "launch", outcome |-> "summary",
                            cwd0 |-> original_cwd,
                            nodes_to_launch |-> nodes_to_launch,
                            launched_nodes |-> done.launched_nodes,
                            launched_at |-> done.launched_at,
                            malformed |-> done.malformed,
                            not_found |-> done.not_found,
                            success |-> LaunchSucceeded(done.launched_nodes)]
                /\ cwd' = original_cwd

(***************************************************************************)
(* The operator at the shell: cd, and rm -r of a project or rm of a node   *)
(* source (the removals the tool's messages anticipate).                   *)
(***************************************************************************)
TheWorkspace == Join(Root, "ws")

CwdChoices == {Root, TheWorkspace, ProjectPath(TheWorkspace, "p")}

ChangeDirectory(d) ==
    /\ d \in dirs
    /\ d # cwd
    /\ cwd' = d
    /\ last' = [op |-> "cd"]
    /\ UNCHANGED <<dirs, files, xbits, content, calls>>

\* What the operator removes: either project's directory, or a node source
\* of project p.
Removable ==
    {ProjectPath(TheWorkspace, p) : p \in ProjectNames}
    \cup {BendFile(ProjectPath(TheWorkspace, "p"), e) : e \in ExecutableNames}

RemoveTree(path) ==
    /\ Exists(path)
    /\ ~IsPrefix(path, cwd)
    /\ dirs' = {d \in dirs : ~IsPrefix(path, d)}
    /\ files' = {f \in files : ~IsPrefix(path, f)}
    /\ xbits' = {f \in xbits : ~IsPrefix(path, f)}
    /\ content' = [f \in {g \in DOMAIN content : ~IsPrefix(path, g)} |-> content[f]]
    /\ last' = [op |-> "rm"]
    /\ UNCHANGED <<cwd, calls>>

\* The launch files the whole-tool specification tries: a missing file, one
\* well-formed entry, one entry without `from`.
ToolLaunchDocs ==
    {NoFile,
     LaunchFile(<<NodeConfig("n1", "p", ExecutableName("a"))>>),
     LaunchFile(<<NodeConfig("n1", None, ExecutableName("a"))>>)}

Next ==
    \/ \E name \in WorkspaceNames : create_workspace(name)
    \/ \E project_name \in ProjectNames : create_project(project_name)
    \/ \E node_name \in NodeNames, node_type \in NodeTypeArgs,
          project_name \in ProjectNames \cup {None} :
            create_node(node_name, node_type, project_name, "ok")
    \/ \E fault \in StepFaults : build_projects(fault)
    \/ \E doc \in ToolLaunchDocs : launch_nodes(doc)
    \/ \E d \in CwdChoices : ChangeDirectory(d)
    \/ \E path \in Removable : RemoveTree(path)

Spec == Init /\ [][Next]_vars

(***************************************************************************)
(* The tool alone (no removal at the shell), with the failures of single   *)
(* file operations: a compile or install step that raises before or after  *)
(* it created its file, and a manifest update of create node that raises.  *)
(***************************************************************************)
NextFaults ==
    \/ \E name \in WorkspaceNames : create_workspace(name)
    \/ \E project_name \in ProjectNames : create_project(project_name)
    \/ \E node_name \in NodeNames, node_type \in NodeTypeArgs,
          project_name \in ProjectNames \cup {None}, update \in ManifestUpdates :
            create_node(node_name, node_type, project_name, update)
    \/ \E fault \in PartialStepFaults : build_projects(fault)
    \/ \E doc \in ToolLaunchDocs : launch_nodes(doc)
    \/ \E d \in CwdChoices : ChangeDirectory(d)

SpecFaults == Init /\ [][NextFaults]_vars

(***************************************************************************)
(* The launch specification: a built workspace whose projects were removed *)
(* afterwards, any set of executables installed, every launch file up to   *)
(* MaxEntries entries.                                                     *)
(***************************************************************************)
WorkspaceLayout ==
    Ancestors(TheWorkspace) \cup {Join(TheWorkspace, d) : d \in WorkspaceDirs}

InitLaunch ==
    \E installed \in SUBSET ExecutableNames :
       LET artifacts == {BuildArtifact(TheWorkspace, e) : e \in installed}
                        \cup {InstallArtifact(TheWorkspace, e) : e \in installed}
           config == Join(TheWorkspace, BROS_WORKSPACE_CONFIG_FILE)
       IN  /\ dirs = WorkspaceLayout
           /\ files = {config} \cup artifacts
           /\ xbits = artifacts
           /\ content = WriteYaml(<<>>, config, <<"p">>)
           /\ cwd = TheWorkspace
           /\ last = [op |-> "start"]
           /\ calls = <<>>

NextLaunch ==
    \/ \E doc \in LaunchDocs : launch_nodes(doc)
    \/ \E d \in {Root, TheWorkspace} : ChangeDirectory(d)

SpecLaunch == InitLaunch /\ [][NextLaunch]_vars

(***************************************************************************)
(* The resolver specification: a chain of nested directories, any of them  *)
(* holding a workspace marker or a project manifest, and the project       *)
(* resolution of create_node run from any directory of the chain.          *)
(***************************************************************************)
RECURSIVE DirName(_)
DirName(n) == IF n = 1 THEN "d" ELSE DirName(n - 1) \o "d"

ChainDir(n) == [i \in 1..n |-> DirName(i)]

InitFind ==
    \E depth \in 0..MaxDepth :
    \E markers \in SUBSET (0..depth), manifests \in SUBSET (0..depth) :
       LET fs == {Join(ChainDir(n), BROS_WORKSPACE_CONFIG_FILE) : n \in markers}
                 \cup {Join(ChainDir(n), BROS_PROJECT_MANIFEST_FILE) : n \in manifests}
       IN  /\ dirs = {ChainDir(n) : n \in 0..depth}
           /\ files = fs
           /\ xbits = {}
           /\ content = [f \in fs |-> <<>>]
           /\ cwd = ChainDir(depth)
           /\ last = [op |-> "start"]
           /\ calls = <<>>

\* Lines 180-181 of create_node: resolve the project of the current directory.
ResolveProject ==
    /\ last' = [op |-> "find", start |-> cwd, result |-> _find_project_root(cwd)]
    /\ UNCHANGED <<dirs, files, xbits, content, cwd, calls>>

NextFind ==
    \/ ResolveProject
    \/ \E d \in dirs : ChangeDirectory(d)

SpecFind == InitFind /\ [][NextFind]_vars

(***************************************************************************)
(* Overlapping invocations.  Each call is a process of its own, and the    *)
(* update of a manifest is the steps the code makes on the open file:      *)
(* open(..., 'r+') and yaml.safe_load, then f.seek(0) and yaml.dump, whose *)
(* output reaches the file in one or more writes at the file position,     *)
(* then f.truncate().  In this specification content[path] is the lines    *)
(* of the file, a line standing for a block of the document.               *)
(***************************************************************************)
MaxCalls == 2

CallIds == 1..MaxCalls

\* The list a manifest of either kind carries, and the lines yaml.dump
\* writes before and after it: it sorts the keys of the document.
ListKey(kind) == IF kind = "workspace" THEN "projects" ELSE "executables"

HeadLines(kind, owner) ==
    IF kind = "workspace" THEN <<>>
    ELSE <<"dependencies: []", "description: A BROS package for " \o owner>>

TailLines(kind, owner) ==
    IF kind = "workspace"
    THEN <<"version: 0.1.0", "workspace_name: " \o owner>>
    ELSE <<"maintainers: [Your Name]", "package_name: " \o owner,
           "version: 0.0.1">>

ItemLine(x) == "- " \o x

ItemLines == {ItemLine(x) : x \in ProjectNames \cup ExecutableNames}

ItemName(line) == CHOOSE x \in ProjectNames \cup ExecutableNames : ItemLine(x) = line

\* What a write past the end of the file leaves in between.
Hole == "<hole>"

\* The directory of a manifest names the workspace or the project.
Owner(path) == Basename(Dirname(path))

\* yaml.safe_load of a file that is no YAML mapping with a list under its
\* key raises.
Unparsable == [ok |-> FALSE, list |-> <<>>, fields |-> {}]

\* yaml.safe_load: the list under the kind's key (of the last such key, an
\* empty list without the key) and the other lines of the mapping.  A list
\* item anywhere else, a hole, or a key without a value (the membership test
\* on None raises) is a failure of the update.
safe_load(kind, lines) ==
    LET key == ListKey(kind)
        n == Len(lines)
        IsItem(i) == lines[i] \in ItemLines
        IsKey(i) == lines[i] \in {key \o ":", key \o ": []"}
        keys == {i \in 1..n : IsKey(i)}
        k == CHOOSE i \in keys : \A j \in keys : j <= i
        end == CHOOSE m \in k..n :
                 /\ \A j \in (k + 1)..m : IsItem(j)
                 /\ m < n => ~IsItem(m + 1)
        wellformed ==
            /\ \A i \in 1..n : lines[i] # Hole
            /\ \A i \in 1..n :
                 IsItem(i) => /\ i > 1
                              /\ IsItem(i - 1) \/ lines[i - 1] = key \o ":"
            /\ \A i \in keys :
                 lines[i] = key \o ":" => i < n /\ IsItem(i + 1)
    IN  IF ~wellformed THEN Unparsable
        ELSE [ok |-> TRUE,
              list |-> IF keys = {} THEN <<>>
                       ELSE [j \in 1..(end - k) |-> ItemName(lines[k + j])],
              fields |-> {lines[i] : i \in {j \in 1..n : ~IsItem(j) /\ ~IsKey(j)}}]

\* yaml.dump(document, f, default_flow_style=False).
yaml_dump(kind, owner, doc) ==
    LET key == ListKey(kind)
        Kept(line) == line \in doc.fields
        list_lines ==
            IF doc.list = <<>> THEN <<key \o ": []">>
            ELSE <<key \o ":">> \o [i \in 1..Len(doc.list) |-> ItemLine(doc.list[i])]
    IN  SelectSeq(HeadLines(kind, owner), Kept) \o list_lines
          \o SelectSeq(TailLines(kind, owner), Kept)

\* The document create_workspace and create_project write at first.
InitialDocument(kind, owner) ==
    [ok |-> TRUE, list |-> <<>>,
     fields |-> {HeadLines(kind, owner)[i] : i \in 1..Len(HeadLines(kind, owner))}
                \cup {TailLines(kind, owner)[i] : i \in 1..Len(TailLines(kind, owner))}]

\* The document unchanged: the name is not appended.
UpdatedDocument_Unchanged(doc, name) == doc

\* Lines 154 and 398: the name appended to the list of the loaded document.
UpdatedDocument(doc, name) == [doc EXCEPT !.list = Append(@, name)]

\* n lines of `new` written over the file at line position pos.
InPlaceWrite(text, new, pos, n) ==
    LET len == IF Len(text) > pos + n THEN Len(text) ELSE pos + n
    IN  [i \in 1..len |-> IF i > pos /\ i <= pos + n THEN new[i]
                          ELSE IF i <= Len(text) THEN text[i]
                          ELSE Hole]

\* f.truncate(): the file cut, or extended, to the file position.
Truncate(text, pos) ==
    [i \in 1..pos |-> IF i <= Len(text) THEN text[i] ELSE Hole]

Idle ==
    [pc |-> "idle", op |-> None, name |-> None, path |-> NoPath, kind |-> None,
     doc |-> Unparsable, old |-> <<>>, new |-> <<>>, pos |-> 0, outcome |-> None]

\* The call returned.
Returned(call, outcome) ==
    [call EXCEPT !.pc = "done", !.outcome = outcome, !.new = <<>>, !.pos = 0]

InitRace ==
    LET config == Join(TheWorkspace, BROS_WORKSPACE_CONFIG_FILE)
    IN  /\ dirs = WorkspaceLayout
        /\ files = {config}
        /\ xbits = {}
        /\ content = WriteYaml(<<>>, config,
                               yaml_dump("workspace", Owner(config),
                                         InitialDocument("workspace", Owner(config))))
        /\ cwd = TheWorkspace
        /\ last = [op |-> "start"]
        /\ calls = [c \in CallIds |-> Idle]

\* Lines 100-146 of create_project: up to the project's own manifest.
create_project_enter(c, project_name) ==
    LET workspace_path == _get_workspace_path
        project_path == ProjectPath(workspace_path, project_name)
        manifest_path == Join(project_path, BROS_PROJECT_MANIFEST_FILE)
        workspace_config_path == Join(workspace_path, BROS_WORKSPACE_CONFIG_FILE)
        call == [Idle EXCEPT !.op = "create_project", !.name = project_name]
    IN  /\ calls[c].pc = "idle"
        /\ UNCHANGED <<xbits, cwd, last>>
        /\ IF workspace_path = NoPath
           THEN /\ calls' = [calls EXCEPT ![c] = Returned(call, "no_workspace")]
                /\ UNCHANGED <<dirs, files, content>>
           ELSE IF Exists(project_path)
           THEN /\ calls' = [calls EXCEPT ![c] = Returned(call, "exists")]
                /\ UNCHANGED <<dirs, files, content>>
           ELSE /\ dirs' = dirs \cup Ancestors(project_path)
                              \cup {Join(project_path, d) : d \in ProjectSubdirs}
                /\ files' = files \cup {manifest_path}
                /\ content' =
                     WriteYaml(content, manifest_path,
                               yaml_dump("project", project_name,
                                         InitialDocument("project", project_name)))
                /\ calls' = [calls EXCEPT ![c] =
                               [call EXCEPT !.pc = "open", !.kind = "workspace",
                                            !.path = workspace_config_path]]

\* Lines 175-386 of create_node: up to the stub.
create_node_enter(c, node_name, node_type, project_name) ==
    LET found == _find_project_root(cwd)
        workspace_path == _get_workspace_path
        detected == found[1] # NoPath
        project_root == IF detected THEN found[1]
                        ELSE ProjectPath(workspace_path, project_name)
        project_manifest_path ==
            IF detected THEN found[2]
            ELSE Join(project_root, BROS_PROJECT_MANIFEST_FILE)
        nodes_dir == Join(project_root, "nodes")
        node_executable_name == ExecutableName(node_name)
        node_file_path == BendFile(project_root, node_executable_name)
        call == [Idle EXCEPT !.op = "create_node", !.name = node_executable_name]
        Fail(outcome) ==
            /\ calls' = [calls EXCEPT ![c] = Returned(call, outcome)]
            /\ UNCHANGED <<dirs, files>>
    IN  /\ calls[c].pc = "idle"
        /\ UNCHANGED <<xbits, content, cwd, last>>
        /\ IF ~detected /\ project_name = None THEN Fail("no_project")
           ELSE IF ~detected /\ workspace_path = NoPath THEN Fail("no_workspace")
           ELSE IF ~detected /\ ~Exists(project_manifest_path)
           THEN Fail("project_not_found")
           ELSE IF Exists(node_file_path) THEN Fail("exists")
           ELSE IF node_type \notin NodeTypes THEN Fail("invalid_type")
           ELSE /\ dirs' = dirs \cup Ancestors(nodes_dir)
                /\ files' = files \cup {node_file_path}
                /\ calls' = [calls EXCEPT ![c] =
                               [call EXCEPT !.pc = "open", !.kind = "project",
                                            !.path = project_manifest_path]]

\* Lines 151-155 and 389-399: open the manifest, load it, and either find
\* the name listed or append it and seek to the start of the file.
open_manifest(c) ==
    LET call == calls[c]
        text == content[call.path]
        doc == safe_load(call.kind, text)
        loaded == [call EXCEPT !.doc = doc, !.old = text]
    IN  /\ call.pc = "open"
        /\ UNCHANGED <<dirs, files, xbits, content, cwd, last>>
        /\ calls' = [calls EXCEPT ![c] =
             IF ~doc.ok THEN Returned(loaded, "error")
             ELSE IF InSeq(call.name, doc.list)
             THEN Returned(loaded, "already_listed")
             ELSE [loaded EXCEPT
                     !.pc = "dump",
                     !.new = yaml_dump(call.kind, Owner(call.path),
                                       UpdatedDocument(doc, call.name))]]

\* Lines 156 and 400: the next lines of yaml.dump's output reach the file,
\* as many as the buffer of the file object lets through at once.
dump_manifest(c) ==
    LET call == calls[c]
    IN  /\ call.pc = "dump"
        /\ \E n \in 1..(Len(call.new) - call.pos) :
              /\ content' = WriteYaml(content, call.path,
                                      InPlaceWrite(content[call.path], call.new,
                                                   call.pos, n))
              /\ calls' = [calls EXCEPT ![c].pos = @ + n]
        /\ UNCHANGED <<dirs, files, xbits, cwd, last>>

\* Lines 157 and 401: f.truncate() at the file position, and the return.
truncate_manifest(c) ==
    LET call == calls[c]
    IN  /\ call.pc = "dump"
        /\ call.pos = Len(call.new)
        /\ content' = WriteYaml(content, call.path,
                                Truncate(content[call.path], call.pos))
        /\ calls' = [calls EXCEPT ![c] = Returned(call, "added")]
        /\ UNCHANGED <<dirs, files, xbits, cwd, last>>

NextRace ==
    \/ \E c \in CallIds, project_name \in ProjectNames :
          create_project_enter(c, project_name)
    \/ \E c \in CallIds, node_name \in NodeNames, node_type \in NodeTypeArgs,
          project_name \in ProjectNames :
            create_node_enter(c, node_name, node_type, project_name)
    \/ \E c \in CallIds : open_manifest(c)
    \/ \E c \in CallIds : dump_manifest(c)
    \/ \E c \in CallIds : truncate_manifest(c)

SpecRace == InitRace /\ [][NextRace]_vars

(***************************************************************************)
(* Properties                                                              *)
(***************************************************************************)
WorkspaceConfig == Join(TheWorkspace, BROS_WORKSPACE_CONFIG_FILE)

\* The projects list of the workspace config, <<>> before the workspace exists.
ProjectsOf(c) == IF WorkspaceConfig \in DOMAIN c THEN c[WorkspaceConfig] ELSE <<>>

\* A create_project call that got as far as the workspace: a second
\* registration when the name was listed before the call.
SecondRegistration(name) ==
    /\ last'.op = "create_project"
    /\ last'.outcome # "no_workspace"
    /\ last'.name = name
    /\ InSeq(name, ProjectsOf(content))

\* C1 as stated: a second create_project of a listed name leaves exactly one
\* occurrence of the name and takes the "already listed" outcome, not an
\* error outcome.
C1_AsStated ==
    [][\A name \in ProjectNames :
         SecondRegistration(name) =>
           /\ Count(name, ProjectsOf(content')) = 1
           /\ last'.outcome = "already_listed"]_vars

\* C1, amended: a second create_project of a listed name leaves exactly one
\* occurrence of the name in the projects list; it is rejected with the
\* "directory already exists" error, changing nothing, when src/<name> still
\* exists, and takes the "already listed" outcome only when that directory
\* is gone.
C1_RegisterProjectOnce ==
    [][\A name \in ProjectNames :
         SecondRegistration(name) =>
           /\ Count(name, ProjectsOf(content')) = 1
           /\ IF Exists(ProjectPath(TheWorkspace, name))
              THEN /\ last'.outcome = "exists"
                   /\ UNCHANGED <<dirs, files, xbits, content>>
              ELSE last'.outcome = "already_listed"]_vars

\* C1 witness: create_project was called for a project that is listed and
\* whose directory exists, and was rejected.
C1_Witness ==
    /\ last.op = "create_project"
    /\ last.outcome = "exists"
    /\ Count(last.name, ProjectsOf(content)) = 1

ProjectManifests(c) == {f \in DOMAIN c : Basename(f) = BROS_PROJECT_MANIFEST_FILE}

\* C2: no project manifest ever lists an executable twice; a create_node that
\* registers '<node>_node' leaves exactly one occurrence of it, and a
\* create_node that finds the name listed, or fails, leaves every manifest
\* unchanged.
C2_ExecutablesNoDuplicate ==
    [][/\ \A m \in ProjectManifests(content') : \A e \in ExecutableNames :
            Count(e, content'[m]) <= 1
       /\ last'.op = "create_node" =>
            IF last'.outcome \in {"added", "already_listed"}
            THEN /\ Count(ExecutableName(last'.node), content'[last'.manifest]) = 1
                 /\ last'.outcome = "already_listed" => content' = content
                 /\ last'.outcome = "added" =>
                      ~InSeq(ExecutableName(last'.node), content[last'.manifest])
            ELSE content' = content]_vars

\* C2 witness: create_node wrote a source whose executable was listed already
\* (the source had been removed), and the list still has it once.
C2_Witness ==
    /\ last.op = "create_node"
    /\ last.outcome = "already_listed"
    /\ Count(ExecutableName(last.node), content[last.manifest]) = 1

HasMarker(d) == Join(d, BROS_WORKSPACE_CONFIG_FILE) \in files

HasManifest(d) == Join(d, BROS_PROJECT_MANIFEST_FILE) \in files

\* d lies in a workspace: d or an ancestor of d holds the workspace marker.
InWorkspace(d) == \E a \in Ancestors(d) : HasMarker(a)

\* The project directories inside a workspace that d is, or descends from.
EnclosingProjects(d) == {a \in Ancestors(d) : HasManifest(a) /\ InWorkspace(a)}

Innermost(S) == CHOOSE a \in S : \A b \in S : Len(b) <= Len(a)

\* C3: started in a project directory inside a workspace, or below one,
\* _find_project_root returns that project's root (the innermost one, should
\* project manifests nest) and its manifest path; started outside any
\* workspace it returns (None, None), whatever package.yaml files lie at or
\* above the start directory.
C3_FindProjectRoot ==
    last.op = "find" =>
      /\ EnclosingProjects(last.start) # {} =>
           last.result = <<Innermost(EnclosingProjects(last.start)),
                           Join(Innermost(EnclosingProjects(last.start)),
                                BROS_PROJECT_MANIFEST_FILE)>>
      /\ ~InWorkspace(last.start) => last.result = <<NoPath, NoPath>>

\* C3 witness: the resolution ran from a directory strictly below a project
\* directory that lies strictly below its workspace root, and found it.
C3_Witness ==
    /\ last.op = "find"
    /\ last.result[1] # NoPath
    /\ Len(last.result[1]) < Len(last.start)
    /\ ~HasMarker(last.result[1])
    /\ last.result[1] \in EnclosingProjects(last.start)

\* C3, second case reached: a package.yaml at the start directory, no
\* workspace marker at or above it, and the answer (None, None).
C3_FloatingManifestReached ==
    /\ last.op = "find"
    /\ HasManifest(last.start)
    /\ ~InWorkspace(last.start)
    /\ last.result = <<NoPath, NoPath>>

\* What the workspace declares: the <<project, executable>> pairs of the
\* manifests of the listed projects.
Declared ==
    {x \in ProjectNames \X ExecutableNames :
       /\ InSeq(x[1], ProjectsOf(content))
       /\ ManifestPath(TheWorkspace, x[1]) \in files
       /\ InSeq(x[2], content[ManifestPath(TheWorkspace, x[1])])}

SourceMissing == {x \in Declared : BendFile(ProjectPath(TheWorkspace, x[1]), x[2]) \notin files}

DanglingProjects ==
    {p \in ProjectNames :
       InSeq(p, ProjectsOf(content)) /\ ManifestPath(TheWorkspace, p) \notin files}

BuildSummary == last.op = "build" /\ last.outcome = "summary"

\* C4: when exactly one declared executable has no source file and no compile
\* or install step raises, the build marks that node failed, ends with
\* overall_success false, and builds and installs every other declared node.
C4_OneMissingSource ==
    (BuildSummary /\ Cardinality(SourceMissing) = 1 /\ last.raised = {}) =>
      /\ SourceMissing \subseteq last.missing
      /\ last.overall_success = FALSE
      /\ \A x \in Declared \ SourceMissing :
           /\ x \in last.built
           /\ BuildArtifact(TheWorkspace, x[2]) \in files
           /\ InstallArtifact(TheWorkspace, x[2]) \in files

\* C4 witness: three or more declared nodes, the first one attempted is the
\* one without source, and the others were built.
C4_Witness ==
    /\ BuildSummary
    /\ Cardinality(SourceMissing) = 1
    /\ last.raised = {}
    /\ Cardinality(Declared) >= 3
    /\ last.attempted[1] \in SourceMissing
    /\ last.built = Declared \ SourceMissing

\* C5 as stated: when the build reaches its summary, every executable of
\* every project manifest has been attempted, whatever failed before it.
C5_AsStated ==
    BuildSummary => \A x \in Declared : InSeq(x, last.attempted)

\* C6: at the summary, overall_success is false whenever a listed project
\* has no manifest, a declared executable has no source, or a compile or
\* install step raised; and the projects without manifest are exactly the
\* ones the build recorded as such.
C6_OverallSuccess ==
    BuildSummary =>
      /\ (DanglingProjects # {} \/ SourceMissing # {} \/ last.raised # {})
            => last.overall_success = FALSE
      /\ last.dangling = DanglingProjects

\* C6 witness: a build with a project whose manifest is gone and another
\* project whose node was built; the build failed overall.
C6_Witness ==
    /\ BuildSummary
    /\ DanglingProjects # {}
    /\ last.built # {}
    /\ last.missing = {}
    /\ last.raised = {}
    /\ last.overall_success = FALSE

LaunchSummary == last.op = "launch" /\ last.outcome = "summary"

\* The entry has its three mandatory fields.
HasAllFields(e) == e.node # None /\ e.from # None /\ e.executable # None

Installed(e) == InstallArtifact(TheWorkspace, e.executable) \in files

\* The aliases of the entries launched, in the order of the launch file.
RECURSIVE AliasesOf(_, _, _)
AliasesOf(entries, at, i) ==
    IF i > Len(entries) THEN <<>>
    ELSE IF i \in at THEN <<entries[i].node>> \o AliasesOf(entries, at, i + 1)
    ELSE AliasesOf(entries, at, i + 1)

\* C7: a well-formed entry whose executable is not in install/ is recorded as
\* not found, is not launched, and every later well-formed entry whose
\* executable is installed is launched.
C7_ArtifactNotFound ==
    LaunchSummary =>
      \A i \in 1..Len(last.nodes_to_launch) :
        LET e == last.nodes_to_launch[i]
        IN  (HasAllFields(e) /\ ~Installed(e)) =>
              /\ i \in last.not_found
              /\ i \notin last.launched_at
              /\ Len(last.launched_nodes) = Cardinality(last.launched_at)
              /\ \A j \in (i + 1)..Len(last.nodes_to_launch) :
                   (HasAllFields(last.nodes_to_launch[j])
                      /\ Installed(last.nodes_to_launch[j]))
                     => j \in last.launched_at

\* C7 witness: the first entry's executable is not installed, a later entry
\* was launched.
C7_Witness ==
    /\ LaunchSummary
    /\ 1 \in last.not_found
    /\ \E j \in 2..Len(last.nodes_to_launch) : j \in last.launched_at

\* C8: an entry without one of node, from, executable is skipped as
\* malformed and never launched, installed or not; every entry of the file
\* is processed, and the launched aliases come in the order of the file.
C8_MalformedSkipped ==
    LaunchSummary =>
      /\ \A i \in 1..Len(last.nodes_to_launch) :
           ~HasAllFields(last.nodes_to_launch[i]) =>
             i \in last.malformed /\ i \notin last.launched_at
      /\ last.malformed \cup last.not_found \cup last.launched_at
           = 1..Len(last.nodes_to_launch)
      /\ last.launched_nodes = AliasesOf(last.nodes_to_launch, last.launched_at, 1)

\* C8 witness: the first entry lacks `from`, its executable is installed, it
\* was skipped and a later entry was launched.
C8_Witness ==
    /\ LaunchSummary
    /\ Len(last.nodes_to_launch) >= 2
    /\ last.nodes_to_launch[1].from = None
    /\ last.nodes_to_launch[1].node # None
    /\ last.nodes_to_launch[1].executable # None
    /\ Installed(last.nodes_to_launch[1])
    /\ 1 \in last.malformed
    /\ 2 \in last.launched_at

\* C9: the launch reports success only when a node was launched; a launch
\* file whose entries are all malformed or all without installed artifact
\* launches nothing and is reported as a failure.
C9_SuccessNeedsLaunch ==
    LaunchSummary =>
      /\ last.success => last.launched_at # {} /\ last.launched_nodes # <<>>
      /\ (\A i \in 1..Len(last.nodes_to_launch) :
            ~HasAllFields(last.nodes_to_launch[i])
              \/ ~Installed(last.nodes_to_launch[i]))
           => /\ last.launched_nodes = <<>>
              /\ last.launched_at = {}
              /\ last.success = FALSE

\* C9 witness: the only entry lacks `from` while its executable is installed;
\* nothing was launched and the launch failed.
C9_Witness ==
    /\ LaunchSummary
    /\ Len(last.nodes_to_launch) = 1
    /\ last.nodes_to_launch[1].from = None
    /\ Installed(last.nodes_to_launch[1])
    /\ last.launched_nodes = <<>>
    /\ last.success = FALSE

\* C10 as stated: when create_workspace, create_project, build_projects or
\* launch_nodes returns, the working directory is the one it was called in.
C10_AsStated ==
    last.op \in {"create_workspace", "create_project", "build", "launch"}
      => cwd = last.cwd0

\* C11: a build that directly follows a build, with the manifests and the
\* sources as they were and the compile and install steps behaving as they
\* did, changes no file and no mode, builds the same nodes, each artifact of
\* which is executable, and ends with the same overall_success.
C11_BuildTwice ==
    [][(/\ BuildSummary
        /\ last'.op = "build" /\ last'.outcome = "summary"
        /\ last'.fault = last.fault) =>
         /\ files' = files
         /\ xbits' = xbits
         /\ last'.built = last.built
         /\ last'.attempted = last.attempted
         /\ last'.overall_success = last.overall_success
         /\ \A x \in last'.built :
              /\ BuildArtifact(TheWorkspace, x[2]) \in files' \cap xbits'
              /\ InstallArtifact(TheWorkspace, x[2]) \in files' \cap xbits']_vars

\* C11 witness: a second pass that built a node and failed on another.
C11_Witness ==
    /\ BuildSummary
    /\ last.pass = 2
    /\ last.built # {}
    /\ last.missing # {}

\* What the build leaves for a declared node that it built.
InstalledExecutable(e) ==
    /\ BuildArtifact(TheWorkspace, e) \in files \cap xbits
    /\ InstallArtifact(TheWorkspace, e) \in files \cap xbits

\* C12: a build of a workspace whose listed projects all have their manifest
\* and whose declared executables all have their source, no step raising,
\* leaves install/<e> executable for each of them and succeeds overall; and a
\* launch that directly follows a successful build, with one well-formed
\* entry naming a project and an executable that the build built, launches
\* exactly that one node and reports success.
C12_EndToEnd ==
    /\ [](( /\ BuildSummary
            /\ Declared # {}
            /\ SourceMissing = {}
            /\ DanglingProjects = {}
            /\ last.raised = {}) =>
              /\ last.overall_success
              /\ \A x \in Declared : x \in last.built /\ InstalledExecutable(x[2]))
    /\ [][( /\ BuildSummary
            /\ last.overall_success
            /\ last'.op = "launch" /\ last'.outcome = "summary"
            /\ Len(last'.nodes_to_launch) = 1
            /\ <<last'.nodes_to_launch[1].from, last'.nodes_to_launch[1].executable>>
                 \in last.built
            /\ last'.nodes_to_launch[1].node # None) =>
              /\ last'.launched_nodes = <<last'.nodes_to_launch[1].node>>
              /\ last'.success]_vars

\* C12 witness: after create_project, create_node and a successful build, a
\* launch of one entry for that project and executable launched one node.
C12_Witness ==
    /\ LaunchSummary
    /\ last.success
    /\ Len(last.nodes_to_launch) = 1
    /\ Len(last.launched_nodes) = 1
    /\ <<last.nodes_to_launch[1].from, last.nodes_to_launch[1].executable>> \in Declared
    /\ SourceMissing = {}
    /\ InstalledExecutable(last.nodes_to_launch[1].executable)

\* The two launch files have the same entries up to the value of `from`, and
\* every entry of both has its three mandatory fields.
DifferOnlyInFrom(one, other) ==
    /\ Len(one) = Len(other)
    /\ \A i \in 1..Len(one) :
         /\ HasAllFields(one[i]) /\ HasAllFields(other[i])
         /\ one[i].node = other[i].node
         /\ one[i].executable = other[i].executable

\* C17: launch_nodes launches an entry that has its three mandatory fields
\* exactly when install/<executable> exists, and two runs on the same install
\* directory whose launch files differ only in the entries' `from` launch
\* the same aliases.
C17_FromIgnored ==
    /\ [](LaunchSummary =>
            \A i \in 1..Len(last.nodes_to_launch) :
               HasAllFields(last.nodes_to_launch[i]) =>
                 (i \in last.launched_at <=> Installed(last.nodes_to_launch[i])))
    /\ [][( /\ LaunchSummary
            /\ last'.op = "launch" /\ last'.outcome = "summary"
            /\ DifferOnlyInFrom(last.nodes_to_launch, last'.nodes_to_launch)) =>
              /\ last'.launched_nodes = last.launched_nodes
              /\ last'.launched_at = last.launched_at]_vars

\* C17 witness: an entry was launched whose `from` names a project that the
\* workspace does not list and that has no directory under src/.
C17_Witness ==
    /\ LaunchSummary
    /\ \E i \in last.launched_at :
         LET e == last.nodes_to_launch[i]
         IN  /\ ~InSeq(e.from, ProjectsOf(content))
             /\ ~Exists(ProjectPath(TheWorkspace, e.from))
             /\ ~Exists(ManifestPath(TheWorkspace, "p"))

\* The source file a create node call is about: in the project around the
\* working directory, or in the project named with --project.
NodeTarget(node_name, project_name) ==
    LET found == _find_project_root(cwd)
    IN  IF found[1] # NoPath
        THEN BendFile(found[1], ExecutableName(node_name))
        ELSE IF project_name # None /\ _get_workspace_path # NoPath
        THEN BendFile(ProjectPath(_get_workspace_path, project_name),
                      ExecutableName(node_name))
        ELSE NoPath

\* The call reported that its target exists and changed nothing on disk.
Rejected ==
    /\ last'.outcome = "exists"
    /\ UNCHANGED <<dirs, files, xbits, content>>

\* C18: create_workspace on an existing directory, create_project on an
\* existing src/<project> and create_node on an existing source file each
\* report the error and leave directories, files, modes and manifests as
\* they were.
C18_CreateOnExisting ==
    [][/\ \A name \in WorkspaceNames :
            (/\ last'.op = "create_workspace"
             /\ Exists(Join(cwd, name))
             /\ create_workspace(name)) => Rejected
       /\ \A project_name \in ProjectNames :
            (/\ last'.op = "create_project"
             /\ _get_workspace_path # NoPath
             /\ Exists(ProjectPath(_get_workspace_path, project_name))
             /\ create_project(project_name)) => Rejected
       /\ \A node_name \in NodeNames, node_type \in NodeTypeArgs,
             project_name \in ProjectNames \cup {None} :
            (/\ last'.op = "create_node"
             /\ NodeTarget(node_name, project_name) # NoPath
             /\ Exists(NodeTarget(node_name, project_name))
             /\ \E update \in ManifestUpdates :
                  create_node(node_name, node_type, project_name, update))
              => Rejected]_vars

\* C18 witness: create_workspace was rejected in a workspace that has
\* registered projects and built artifacts.
C18_Witness ==
    /\ last.op = "create_workspace"
    /\ last.outcome = "exists"
    /\ ProjectsOf(content) # <<>>
    /\ xbits # {}

\* create_project and create_node were rejected too, with artifacts on disk.
C18_ProjectRejected ==
    last.op = "create_project" /\ last.outcome = "exists" /\ xbits # {}

C18_NodeRejected ==
    last.op = "create_node" /\ last.outcome = "exists" /\ xbits # {}

\* An artifact is installed when the build output and the installed copy
\* both exist and are executable.
IsInstalled(executable_name) ==
    /\ BuildArtifact(TheWorkspace, executable_name) \in files \cap xbits
    /\ InstallArtifact(TheWorkspace, executable_name) \in files \cap xbits

\* C15: launch_nodes launches an entry only when build/<executable> and
\* install/<executable> both exist and are executable.
C15_AsStated ==
    LaunchSummary =>
      \A i \in last.launched_at : IsInstalled(last.nodes_to_launch[i].executable)

\* The state C15 is refuted in: a launched entry whose installed copy is not
\* executable.
C15_LaunchedNotExecutable ==
    /\ LaunchSummary
    /\ \E i \in last.launched_at :
         InstallArtifact(TheWorkspace, last.nodes_to_launch[i].executable)
           \notin xbits

\* C16: every source stub under a project's nodes/ has its executable listed
\* in that project's manifest.
C16_AsStated ==
    \A project_name \in ProjectNames, executable_name \in ExecutableNames :
       BendFile(ProjectPath(TheWorkspace, project_name), executable_name) \in files
         => /\ ManifestPath(TheWorkspace, project_name) \in DOMAIN content
            /\ InSeq(executable_name,
                     content[ManifestPath(TheWorkspace, project_name)])

\* The state C16 is refuted in: create node of a name whose stub is on disk
\* and unlisted was turned away because the file exists.
C16_StuckUnregistered ==
    /\ last.op = "create_node"
    /\ last.outcome = "exists"
    /\ ~C16_AsStated

\* C13: every step of a manifest update that finds the file holding the
\* complete old document (the one the call loaded) or the complete new one
\* leaves it holding one of the two.
C13_AsStated ==
    [][\A c \in CallIds :
         (/\ calls[c].pc = "dump"
          /\ calls'[c] # calls[c]
          /\ content[calls[c].path] \in {calls[c].old, calls[c].new})
           => content'[calls[c].path] \in {calls[c].old, calls[c].new}]_vars

\* The state C13 is refuted in: a single call is in the middle of its
\* update and the file is neither the document it loaded nor the one it
\* writes, nor any document yaml.dump writes.
C13_PartialDocument ==
    \E c \in CallIds :
       LET call == calls[c]
           text == content[call.path]
       IN  /\ call.pc = "dump"
           /\ \A d \in CallIds \ {c} : calls[d].pc = "idle"
           /\ text \notin {call.old, call.new}
           /\ text # yaml_dump(call.kind, Owner(call.path),
                               safe_load(call.kind, text))

\* Two create_project calls of distinct names that both loaded the same
\* projects list and both returned after adding their name.
BothAdded(c, d) ==
    /\ c # d
    /\ calls[c].pc = "done" /\ calls[d].pc = "done"
    /\ calls[c].op = "create_project" /\ calls[d].op = "create_project"
    /\ calls[c].outcome = "added" /\ calls[d].outcome = "added"
    /\ calls[c].name # calls[d].name
    /\ calls[c].doc = calls[d].doc

\* C14: when two overlapping create_project calls of distinct names both
\* loaded the projects list before either wrote it back, both return
\* without an error, and once no call is updating the workspace config its
\* projects list is the loaded one with exactly one of the two names.
C14_LastWriteWins ==
    \A c, d \in CallIds :
       (BothAdded(c, d) /\ \A e \in CallIds : calls[e].pc \in {"idle", "done"})
         => LET final == safe_load("workspace", content[WorkspaceConfig])
            IN  /\ final.ok
                /\ final.list \in {Append(calls[c].doc.list, calls[c].name),
                                   Append(calls[d].doc.list, calls[d].name)}
                /\ ~(InSeq(calls[c].name, final.list)
                       /\ InSeq(calls[d].name, final.list))

\* C14 witness: both calls returned "added" and the workspace config lists
\* one project, while the directories of both exist.
C14_Witness ==
    /\ \E c, d \in CallIds : BothAdded(c, d)
    /\ \A e \in CallIds : calls[e].pc = "done"
    /\ Len(safe_load("workspace", content[WorkspaceConfig]).list) = 1
    /\ \A project_name \in ProjectNames :
         Exists(ManifestPath(TheWorkspace, project_name))

====
